---------------------------- MODULE Spec2Model ----------------------------
(***************************************************************************)
(* Model of src/app.py: the NED student list viewer.                       *)
(*                                                                         *)
(* Two specifications share the module's variables:                        *)
(*   SpecExtract  the pure function extract_batch_year applied to every    *)
(*                enrollment-number string of a bounded input set;         *)
(*   Spec         one rendering pass of main() after another over a        *)
(*                source file chosen from a bounded set of files.          *)
(*                                                                         *)
(* Text is modelled as a sequence of one-character strings, so that the    *)
(* regular expressions of the source are computed character by character.  *)
(***************************************************************************)
EXTENDS Integers, Sequences, FiniteSets

VARIABLES
    enrollment_number,  \* extract_batch_year: its argument
    extract_pc,         \* extract_batch_year: "call" | "returned" | "raised"
    result,             \* extract_batch_year: [rule, value] of the return taken
    file,               \* the source file at csv_path
    pc,                 \* main(): position of the rendering pass
    df,                 \* main(): the loaded DataFrame
    selected_batch,     \* main(): value of the batch selectbox
    filtered_df,        \* main(): rows after the batch filter
    search_term,        \* main(): value of the text input
    search_results,     \* main(): rows after the name search
    csv_data,           \* main(): data handed to the download button
    rendered,           \* elements the pass has put on the page so far
    shown,              \* what is displayed: [table, results, metrics]
    loadCalls           \* calls of load_data() in the current pass

extractVars == <<enrollment_number, extract_pc, result>>
passVars == <<pc, df, selected_batch, filtered_df, search_term, search_results,
              csv_data, rendered, shown, loadCalls>>
vars == <<enrollment_number, extract_pc, result, file, pc, df, selected_batch,
          filtered_df, search_term, search_results, csv_data, rendered, shown,
          loadCalls>>

---------------------------------------------------------------------------
(* Bounds of the model.                                                    *)

\* Longest enrollment number, counted in fragments of Chunks.
MaxChunks == 5
\* Most data rows of a source file.
MaxRows == 3

---------------------------------------------------------------------------
(* Text.                                                                   *)

Digits == <<"0", "1", "2", "3", "4", "5", "6", "7", "8", "9">>

\* \d of the patterns, on the characters of the model
IsDigit(c) == \E k \in 1..10 : Digits[k] = c

DigitValue(c) == (CHOOSE k \in 1..10 : Digits[k] = c) - 1

AllDigits(s, from, to) == \A k \in from..to : IsDigit(s[k])

\* the literal "Unknown" of the last return
Unknown == <<"U", "n", "k", "n", "o", "w", "n">>

\* the separator " - " of the f-strings
Separator == <<" ", "-", " ">>

\* the prefix "20" of the two-digit rules
Century == <<"2", "0">>

\* int(year): raises ValueError unless the text is a decimal literal
IsIntLiteral(s) == Len(s) > 0 /\ AllDigits(s, 1, Len(s))

RECURSIVE ParseInt(_)
ParseInt(s) ==
    IF s = <<>> THEN 0
    ELSE 10 * ParseInt(SubSeq(s, 1, Len(s) - 1)) + DigitValue(s[Len(s)])

\* str(n) of a non-negative integer: no padding, no leading zero
RECURSIVE IntToStr(_)
IntToStr(n) ==
    IF n < 10 THEN <<Digits[n + 1]>>
    ELSE IntToStr(n \div 10) \o <<Digits[(n % 10) + 1]>>

---------------------------------------------------------------------------
(* The patterns of extract_batch_year.  PatNAt(s, i) is: the pattern of    *)
(* rule N matches s with the match starting at index i.                    *)

\* a first pattern that, like Patterns 2 and 3, wants the slash before it
Pat1AtSlash(s, i) ==
    /\ i > 1
    /\ i + 8 <= Len(s)
    /\ s[i - 1] = "/"
    /\ AllDigits(s, i, i + 3)
    /\ s[i + 4] = "-"
    /\ AllDigits(s, i + 5, i + 8)

\* r'(\d{4})-(\d{4})' of Pattern 1
Pat1At(s, i) ==
    /\ i + 8 <= Len(s)
    /\ AllDigits(s, i, i + 3)
    /\ s[i + 4] = "-"
    /\ AllDigits(s, i + 5, i + 8)

\* a Pattern 2 that is anchored at the end of the text
Pat2AtAnchored(s, i) ==
    /\ i + 5 = Len(s)
    /\ s[i] = "/"
    /\ AllDigits(s, i + 1, i + 4)
    /\ s[i + 5] = "-"

\* r'/(\d{4})-' of Pattern 2
Pat2At(s, i) ==
    /\ i + 5 <= Len(s)
    /\ s[i] = "/"
    /\ AllDigits(s, i + 1, i + 4)
    /\ s[i + 5] = "-"

\* r'/(\d{2})-(\d{2})' of Pattern 3
Pat3At(s, i) ==
    /\ i + 5 <= Len(s)
    /\ s[i] = "/"
    /\ AllDigits(s, i + 1, i + 2)
    /\ s[i + 3] = "-"
    /\ AllDigits(s, i + 4, i + 5)

\* r'(\d{4})-(\d{4})' of Pattern 4
Pat4At(s, i) ==
    /\ i + 8 <= Len(s)
    /\ AllDigits(s, i, i + 3)
    /\ s[i + 4] = "-"
    /\ AllDigits(s, i + 5, i + 8)

\* r'/(\d{2})-(\d{2})' of Pattern 5
Pat5At(s, i) ==
    /\ i + 5 <= Len(s)
    /\ s[i] = "/"
    /\ AllDigits(s, i + 1, i + 2)
    /\ s[i + 3] = "-"
    /\ AllDigits(s, i + 4, i + 5)

\* a search that keeps the last match instead of the first
LastMatch(starts) ==
    IF starts = {} THEN 0
    ELSE CHOOSE i \in starts : \A j \in starts : j <= i

\* re.search scans from the left: the start of the leftmost match, 0 for None
re_search(starts) ==
    IF starts = {} THEN 0
    ELSE CHOOSE i \in starts : \A j \in starts : i <= j

\* an int() that refuses a literal with a leading zero
IntRaisesLeadingZero(year) == ~IsIntLiteral(year) \/ year[1] = "0"

\* int(year) raises ValueError
IntRaises(year) == ~IsIntLiteral(year)

\* f"{year} - {next_year}" with next_year = str(int(year) + 1)
YearAndNext(year) == year \o Separator \o IntToStr(ParseInt(year) + 1)

\* f"{start_year} - {end_year}" with both prefixed by "20"
TwoDigitLabel(s, i) ==
    Century \o SubSeq(s, i + 1, i + 2) \o Separator
            \o Century \o SubSeq(s, i + 4, i + 5)

\* f"{match.group(1)} - {match.group(2)}"
FourDigitLabel(s, i) ==
    SubSeq(s, i, i + 3) \o Separator \o SubSeq(s, i + 5, i + 8)

(* extract_batch_year(enrollment_number): the return statement taken       *)
(* (rule 1..5, 0 for the final return, -1 for an exception) and its value. *)
extract_batch_year(s) ==
    LET m1 == re_search({i \in 1..Len(s) : Pat1At(s, i)})
        m2 == re_search({i \in 1..Len(s) : Pat2At(s, i)})
        m3 == re_search({i \in 1..Len(s) : Pat3At(s, i)})
        m4 == re_search({i \in 1..Len(s) : Pat4At(s, i)})
        m5 == re_search({i \in 1..Len(s) : Pat5At(s, i)})
    IN  IF m1 # 0 THEN [rule |-> 1, value |-> FourDigitLabel(s, m1)]
        ELSE IF m2 # 0 THEN
            IF IntRaises(SubSeq(s, m2 + 1, m2 + 4))
            THEN [rule |-> -1, value |-> <<>>]
            ELSE [rule |-> 2, value |-> YearAndNext(SubSeq(s, m2 + 1, m2 + 4))]
        ELSE IF m3 # 0 THEN [rule |-> 3, value |-> TwoDigitLabel(s, m3)]
        ELSE IF m4 # 0 THEN [rule |-> 4, value |-> FourDigitLabel(s, m4)]
        ELSE IF m5 # 0 THEN [rule |-> 5, value |-> TwoDigitLabel(s, m5)]
        ELSE [rule |-> 0, value |-> Unknown]

---------------------------------------------------------------------------
(* SpecExtract: extract_batch_year on every input of a bounded set.        *)

\* fragments enrollment numbers are built from
Chunks == { <<"/">>, <<"-">>, <<"x">>,
            <<"0", "8">>,
            <<"0", "8", "-", "0", "9">>,
            <<"2", "0", "0", "1">>,
            <<"9", "9", "9", "9">> }

RECURSIVE Flatten(_)
Flatten(cs) == IF cs = <<>> THEN <<>> ELSE Head(cs) \o Flatten(Tail(cs))

EnrollmentInputs ==
    { Flatten(cs) : cs \in UNION { [1..n -> Chunks] : n \in 0..MaxChunks } }

NoResult == [rule |-> 0, value |-> <<>>]

\* the file of a pass that is not running
NoFile == [exists |-> FALSE, header |-> <<>>, lines |-> <<>>]

\* pd.DataFrame()
EmptyFrame == [columns |-> <<>>, rows |-> <<>>]

NoShown ==
    [table |-> EmptyFrame, results |-> EmptyFrame,
     metrics |-> [students |-> 0, batches |-> 0]]

PassIdle ==
    /\ pc = "start"
    /\ df = EmptyFrame
    /\ selected_batch = <<>>
    /\ filtered_df = EmptyFrame
    /\ search_term = <<>>
    /\ search_results = EmptyFrame
    /\ csv_data = <<>>
    /\ rendered = {}
    /\ shown = NoShown
    /\ loadCalls = 0

InitExtract ==
    /\ enrollment_number \in EnrollmentInputs
    /\ extract_pc = "call"
    /\ result = NoResult
    /\ file = NoFile
    /\ PassIdle

\* one call of extract_batch_year
Extract ==
    /\ extract_pc = "call"
    /\ result' = extract_batch_year(enrollment_number)
    /\ extract_pc' = IF result'.rule = -1 THEN "raised" ELSE "returned"
    /\ UNCHANGED <<enrollment_number, file, passVars>>

NextExtract == Extract

SpecExtract == InitExtract /\ [][NextExtract]_vars

---------------------------------------------------------------------------
(* The source file and the DataFrame.  A frame is its column names in      *)
(* order and its rows, each a record over those columns; a cell is a text  *)
(* or NaN, the missing value of pandas.                                    *)

\* the missing value: no text, since no text holds a three-letter element
NaN == <<"NaN">>

\* the option "All" of the selectbox
All == <<"A", "l", "l">>

BaseColumns == <<"Name", "Enrollment_Number", "Roll_Number">>

ColumnSet(columns) == { columns[k] : k \in 1..Len(columns) }

\* pd.read_csv on one cell: an empty cell is read as NaN
read_cell(text) == IF text = <<>> THEN NaN ELSE text

\* pd.read_csv(csv_path): the header gives the columns, each line a row
read_csv(f) ==
    [columns |-> f.header,
     rows |-> [k \in 1..Len(f.lines) |->
                 [c \in ColumnSet(f.header) |-> read_cell(f.lines[k][c])]]]

\* os.path.exists(csv_path)
path_exists(f) == f.exists

\* df['Batch'] = df['Enrollment_Number'].apply(extract_batch_year)
AddBatchColumn(d) ==
    [columns |-> Append(d.columns, "Batch"),
     rows |-> [k \in 1..Len(d.rows) |->
                 [c \in ColumnSet(d.columns) \cup {"Batch"} |->
                     IF c = "Batch"
                     THEN extract_batch_year(d.rows[k]["Enrollment_Number"]).value
                     ELSE d.rows[k][c]]]]

\* load_data()
load_data(f) ==
    IF ~path_exists(f) THEN EmptyFrame
    ELSE LET d == read_csv(f)
         IN  IF "Batch" \notin ColumnSet(d.columns) THEN AddBatchColumn(d) ELSE d

\* an emptiness test that is never true
DfEmptyNever(d) == FALSE

\* df.empty: some axis has length 0
DfEmpty(d) == Len(d.rows) = 0 \/ Len(d.columns) = 0

\* df['Batch'].unique()
UniqueBatches(d) == { d.rows[k]["Batch"] : k \in 1..Len(d.rows) }

(* Lines 84-90 raise: df['Batch'] is a KeyError without the column, and    *)
(* sorted() a TypeError when it has to compare NaN (a float) with a str.   *)
BatchYearsRaise(d) ==
    \/ "Batch" \notin ColumnSet(d.columns)
    \/ (NaN \in UniqueBatches(d) /\ Cardinality(UniqueBatches(d)) > 1)

\* filtered_df['Batch'] == selected_batch on one cell: NaN equals nothing
eq_cell(cell, value) == cell # NaN /\ value # NaN /\ cell = value

\* a filter without the test for "All"
filter_without_all(d, selected) ==
    [d EXCEPT !.rows = SelectSeq(d.rows, LAMBDA r : eq_cell(r["Batch"], selected))]

\* filtered_df = df.copy(), then the boolean index unless "All" is selected
filter_by_batch(d, selected) ==
    IF selected # All
    THEN [d EXCEPT !.rows = SelectSeq(d.rows, LAMBDA r : eq_cell(r["Batch"], selected))]
    ELSE d

\* case=False on the letters of the model
Lower(c) == CASE c = "A" -> "a" [] c = "N" -> "n" [] OTHER -> c

(* re.compile(search_term) raises re.error.  The search terms of the model *)
(* are written with letters, '.' and '(': a '(' is never closed.           *)
ReCompileRaises(pat) == \E k \in 1..Len(pat) : pat[k] = "("

\* the pattern, compiled with re.IGNORECASE, matches name at index i
RegexAt(pat, name, i) ==
    /\ i + Len(pat) - 1 <= Len(name)
    /\ \A k \in 1..Len(pat) :
          pat[k] = "." \/ Lower(pat[k]) = Lower(name[i + k - 1])

\* Series.str.contains(pat, case=False) on one name: regex=True by default
str_contains(name, pat) == \E i \in 1..(Len(name) + 1) : RegexAt(pat, name, i)

\* a to_csv that also writes the index column
to_csv_with_index(d) ==
    [exists |-> TRUE,
     header |-> <<"index">> \o d.columns,
     lines |-> [k \in 1..Len(d.rows) |->
                  [c \in ColumnSet(d.columns) \cup {"index"} |->
                      IF c = "index" THEN IntToStr(k - 1)
                      ELSE IF d.rows[k][c] = NaN THEN <<>> ELSE d.rows[k][c]]]]

\* DataFrame.to_csv(index=False): a header line, NaN written as an empty cell
to_csv(d) ==
    [exists |-> TRUE,
     header |-> d.columns,
     lines |-> [k \in 1..Len(d.rows) |->
                  [c \in ColumnSet(d.columns) |->
                      IF d.rows[k][c] = NaN THEN <<>> ELSE d.rows[k][c]]]]

---------------------------------------------------------------------------
(* Spec: the rendering passes of main().                                   *)

Names == { <<"A", "n">>, <<"a", ".">> }

EnrollmentCells == { <<"/", "2", "0", "0", "1", "-">>, <<"x">> }

RollNumbers == { <<"C", "T">> }

\* cells of a Batch column: empty, or a label
BatchCells == { <<>> } \cup { extract_batch_year(e).value : e \in EnrollmentCells }

SearchTerms == { <<>>, <<"a", "n">>, <<"N">>, <<".">>, <<"(">> }

LinesWithoutBatch ==
    [Name : Names, Enrollment_Number : EnrollmentCells, Roll_Number : RollNumbers]

LinesWithBatch ==
    [Name : Names, Enrollment_Number : EnrollmentCells, Roll_Number : RollNumbers,
     Batch : BatchCells]

SeqsUpTo(S, n) == UNION { [1..k -> S] : k \in 0..n }

Files ==
    { [exists |-> FALSE, header |-> <<>>, lines |-> <<>>] }
    \cup { [exists |-> TRUE, header |-> BaseColumns, lines |-> ls] :
             ls \in SeqsUpTo(LinesWithoutBatch, MaxRows) }
    \cup { [exists |-> TRUE, header |-> Append(BaseColumns, "Batch"), lines |-> ls] :
             ls \in SeqsUpTo(LinesWithBatch, MaxRows) }

Init ==
    /\ file \in Files
    /\ PassIdle
    /\ enrollment_number = <<>>
    /\ extract_pc = "call"
    /\ result = NoResult

\* lines 63-74 and load_data: the title, st.error when the file is missing
LoadData ==
    /\ pc = "start"
    /\ df' = load_data(file)
    /\ loadCalls' = loadCalls + 1
    /\ rendered' = IF path_exists(file)
                   THEN rendered \cup {"title"}
                   ELSE rendered \cup {"title", "error"}
    /\ pc' = "loaded"
    /\ UNCHANGED <<file, selected_batch, filtered_df, search_term, search_results,
                   csv_data, shown, extractVars>>

\* lines 76-78: warn and return on an empty frame
CheckEmpty ==
    /\ pc = "loaded"
    /\ IF DfEmpty(df)
       THEN rendered' = rendered \cup {"warning"} /\ pc' = "done"
       ELSE rendered' = rendered /\ pc' = "filters"
    /\ UNCHANGED <<file, df, selected_batch, filtered_df, search_term,
                   search_results, csv_data, shown, loadCalls, extractVars>>

\* lines 80-96: the sidebar, the selectbox and the batch filter
FilterByBatch ==
    /\ pc = "filters"
    /\ \/ /\ BatchYearsRaise(df)
          /\ rendered' = rendered \cup {"filters_header"}
          /\ pc' = "crashed"
          /\ UNCHANGED <<selected_batch, filtered_df>>
       \/ /\ ~BatchYearsRaise(df)
          /\ \E selected \in {All} \cup UniqueBatches(df) :
                /\ selected_batch' = selected
                /\ filtered_df' = filter_by_batch(df, selected)
          /\ rendered' = rendered \cup {"filters_header", "batch_selector"}
          /\ pc' = "display"
    /\ UNCHANGED <<file, df, search_term, search_results, csv_data, shown,
                   loadCalls, extractVars>>

\* lines 98-120: the two metrics and the table of filtered_df
DisplayStats ==
    /\ pc = "display"
    /\ rendered' = rendered \cup {"statistics", "student_table"}
    /\ shown' = [shown EXCEPT
                    !.table = filtered_df,
                    !.metrics = [students |-> Len(filtered_df.rows),
                                 batches |-> Cardinality(UniqueBatches(filtered_df))]]
    /\ pc' = "search"
    /\ UNCHANGED <<file, df, selected_batch, filtered_df, search_term,
                   search_results, csv_data, loadCalls, extractVars>>

\* lines 122-143: the text input and, for a non-empty term, the search
Search ==
    /\ pc = "search"
    /\ \E term \in SearchTerms :
          /\ search_term' = term
          /\ IF term = <<>>
             THEN /\ rendered' = rendered \cup {"search_box"}
                  /\ pc' = "export"
                  /\ UNCHANGED <<search_results, shown>>
             ELSE IF ReCompileRaises(term)
             THEN /\ rendered' = rendered \cup {"search_box"}
                  /\ pc' = "crashed"
                  /\ UNCHANGED <<search_results, shown>>
             ELSE /\ search_results' =
                        [filtered_df EXCEPT !.rows =
                            SelectSeq(filtered_df.rows,
                                      LAMBDA r : str_contains(r["Name"], term))]
                  /\ IF Len(search_results'.rows) > 0
                     THEN /\ rendered' = rendered \cup {"search_box", "search_results"}
                          /\ shown' = [shown EXCEPT !.results = search_results']
                     ELSE /\ rendered' = rendered \cup {"search_box", "no_matches"}
                          /\ UNCHANGED shown
                  /\ pc' = "export"
    /\ UNCHANGED <<file, df, selected_batch, filtered_df, csv_data, loadCalls,
                   extractVars>>

\* lines 145-152: the download button
Export ==
    /\ pc = "export"
    /\ csv_data' = to_csv(filtered_df)
    /\ rendered' = rendered \cup {"download_button"}
    /\ pc' = "done"
    /\ UNCHANGED <<file, df, selected_batch, filtered_df, search_term,
                   search_results, shown, loadCalls, extractVars>>

\* a user interaction after the pass has ended: Streamlit runs main() again
Rerun ==
    /\ pc \in {"done", "crashed"}
    /\ pc' = "start"
    /\ df' = EmptyFrame
    /\ selected_batch' = <<>>
    /\ filtered_df' = EmptyFrame
    /\ search_term' = <<>>
    /\ search_results' = EmptyFrame
    /\ csv_data' = <<>>
    /\ rendered' = {}
    /\ shown' = NoShown
    /\ loadCalls' = 0
    /\ UNCHANGED <<file, extractVars>>

Next ==
    \/ LoadData
    \/ CheckEmpty
    \/ FilterByBatch
    \/ DisplayStats
    \/ Search
    \/ Export
    \/ Rerun

Spec == Init /\ [][Next]_vars

---------------------------------------------------------------------------
(* Properties of extract_batch_year, stated on the text alone.             *)

Min(S) == CHOOSE i \in S : \A j \in S : i <= j

IsYear(t) == Len(t) = 4 /\ \A k \in 1..4 : IsDigit(t[k])

IsPair(t) == Len(t) = 2 /\ \A k \in 1..2 : IsDigit(t[k])

Returned == extract_pc = "returned"

\* starts of the substrings 'YYYY-YYYY'
YearRangeStarts(s) ==
    { i \in 1..(Len(s) - 8) :
        /\ IsYear(SubSeq(s, i, i + 3))
        /\ SubSeq(s, i + 4, i + 4) = <<"-">>
        /\ IsYear(SubSeq(s, i + 5, i + 8)) }

\* starts of the substrings '/YYYY-'
SlashYearStarts(s) ==
    { i \in 1..(Len(s) - 5) :
        /\ SubSeq(s, i, i) = <<"/">>
        /\ IsYear(SubSeq(s, i + 1, i + 4))
        /\ SubSeq(s, i + 5, i + 5) = <<"-">> }

\* starts of the substrings '/NN-MM'
SlashPairStarts(s) ==
    { i \in 1..(Len(s) - 5) :
        /\ SubSeq(s, i, i) = <<"/">>
        /\ IsPair(SubSeq(s, i + 1, i + 2))
        /\ SubSeq(s, i + 3, i + 3) = <<"-">>
        /\ IsPair(SubSeq(s, i + 4, i + 5)) }

\* the label the ordered rules 1, 2, 3 assign to s
FirstRuleLabel(s) ==
    LET r1 == YearRangeStarts(s)
        r2 == SlashYearStarts(s)
        r3 == SlashPairStarts(s)
    IN  IF r1 # {} THEN
            SubSeq(s, Min(r1), Min(r1) + 3) \o <<" ", "-", " ">>
                \o SubSeq(s, Min(r1) + 5, Min(r1) + 8)
        ELSE IF r2 # {} THEN
            SubSeq(s, Min(r2) + 1, Min(r2) + 4) \o <<" ", "-", " ">>
                \o IntToStr(ParseInt(SubSeq(s, Min(r2) + 1, Min(r2) + 4)) + 1)
        ELSE IF r3 # {} THEN
            <<"2", "0">> \o SubSeq(s, Min(r3) + 1, Min(r3) + 2) \o <<" ", "-", " ">>
                \o <<"2", "0">> \o SubSeq(s, Min(r3) + 4, Min(r3) + 5)
        ELSE <<"U", "n", "k", "n", "o", "w", "n">>

(* C1: extract_batch_year(s) is the label of the first of rules 1, 2, 3    *)
(* that matches s (rule 1 on the leftmost 'YYYY-YYYY', also when rule 2 or *)
(* rule 3 matches earlier in s), and is 'Unknown' exactly when none does.  *)
C1_FirstMatchingRule ==
    Returned =>
        /\ result.value = FirstRuleLabel(enrollment_number)
        /\ (result.value = Unknown) <=>
              /\ YearRangeStarts(enrollment_number) = {}
              /\ SlashYearStarts(enrollment_number) = {}
              /\ SlashPairStarts(enrollment_number) = {}

\* C1 witness: rule 3 matches before the 'YYYY-YYYY' substring, rule 1 wins
C1_Witness ==
    /\ Returned
    /\ YearRangeStarts(enrollment_number) # {}
    /\ SlashPairStarts(enrollment_number) # {}
    /\ Min(SlashPairStarts(enrollment_number)) < Min(YearRangeStarts(enrollment_number))
    /\ result.rule = 1

\* 'YYYY - YYYY'
IsBatchLabelForm(v) ==
    /\ Len(v) = 11
    /\ IsYear(SubSeq(v, 1, 4))
    /\ SubSeq(v, 5, 7) = <<" ", "-", " ">>
    /\ IsYear(SubSeq(v, 8, 11))

(* C4: every value extract_batch_year returns is 'Unknown' or of the exact *)
(* form 'YYYY - YYYY' with two four-digit years.                           *)
C4_LabelForm ==
    Returned => (result.value = Unknown \/ IsBatchLabelForm(result.value))

(* C5 as stated: rule 2 labels exactly the strings, not matched by rule 1, *)
(* in which '/YYYY-' occurs with nothing after the hyphen.                 *)
C5_Rule2NothingAfterHyphen ==
    Returned =>
        ((result.rule = 2) <=>
            /\ YearRangeStarts(enrollment_number) = {}
            /\ \E i \in SlashYearStarts(enrollment_number) :
                   i + 5 = Len(enrollment_number))

(* C5 amended: rule 2 labels exactly the strings, not matched by rule 1,   *)
(* in which '/YYYY-' occurs, whatever follows the hyphen; the label is the *)
(* year of the leftmost occurrence, ' - ', and the decimal numeral of that *)
(* year plus one.                                                          *)
C5_Rule2AnySuffix ==
    Returned =>
        LET s == enrollment_number
            r2 == SlashYearStarts(s)
        IN  /\ (result.rule = 2) <=> (YearRangeStarts(s) = {} /\ r2 # {})
            /\ result.rule = 2 =>
                  result.value =
                      SubSeq(s, Min(r2) + 1, Min(r2) + 4) \o <<" ", "-", " ">>
                        \o IntToStr(ParseInt(SubSeq(s, Min(r2) + 1, Min(r2) + 4)) + 1)

\* C5 witness: rule 2 returned for a string with characters after the hyphen
C5_Witness ==
    /\ Returned
    /\ result.rule = 2
    /\ Min(SlashYearStarts(enrollment_number)) + 5 < Len(enrollment_number)

(* C8: extract_batch_year never raises: for every string, the empty one    *)
(* and those matching rule 2 included, the call ends in a return of a      *)
(* non-empty string.                                                       *)
C8_Total ==
    /\ extract_pc \in {"call", "returned"}
    /\ Returned => (result.rule \in 0..5 /\ Len(result.value) > 0)

\* C8 witness: rule 2 has converted a year with a leading zero
C8_Witness ==
    /\ Returned
    /\ result.rule = 2
    /\ \E i \in SlashYearStarts(enrollment_number) : enrollment_number[i + 1] = "0"

(* C10: no call returns from rule 4 or rule 5; once rules 1, 2 and 3 have  *)
(* failed the result is 'Unknown', as it is with rules 4 and 5 removed.    *)
C10_DeadRules ==
    Returned =>
        /\ result.rule \notin {4, 5}
        /\ result.rule \notin {1, 2, 3} => result.value = Unknown

\* C10 witness: a call that passed the checks of rules 4 and 5
C10_Witness ==
    /\ Returned
    /\ result.rule = 0
    /\ Len(enrollment_number) >= 9

---------------------------------------------------------------------------
(* Properties of the rendering pass.                                       *)

\* the pass has gone through the batch filter
Filtered == pc \in {"display", "search", "export", "done"} /\ "batch_selector" \in rendered

\* the pass has gone through the search and reached the download button
Exported == pc = "done" /\ "download_button" \in rendered

\* name contains term as a literal substring, letter case ignored
ContainsLiteral(name, term) ==
    \E i \in 1..(Len(name) + 1) :
        /\ i + Len(term) - 1 <= Len(name)
        /\ \A k \in 1..Len(term) : Lower(term[k]) = Lower(name[i + k - 1])

\* what the user sees as the result of batch filter and name search
BatchAndSearchView == IF search_term = <<>> THEN filtered_df ELSE search_results

(* C2 as stated: the rows of the exported CSV are the rows of the batch-   *)
(* and-search result, in the same order and with the same columns.         *)
C2_ExportIsBatchAndSearch ==
    Exported => read_csv(csv_data) = BatchAndSearchView

(* C2 amended: the rows of the exported CSV are the rows of the batch-     *)
(* filtered Student Records table, in the same order and with the same     *)
(* columns, whatever the search term is.                                   *)
C2_ExportIsBatchFiltered ==
    Exported =>
        /\ read_csv(csv_data) = shown.table
        /\ csv_data.header = df.columns
        /\ shown.table = filtered_df

\* C2 witness: an export after a search that has dropped a row of the table
C2_Witness ==
    /\ Exported
    /\ search_term # <<>>
    /\ Len(search_results.rows) < Len(filtered_df.rows)
    /\ Len(csv_data.lines) = Len(filtered_df.rows)

(* C3: after a successful load every record has a non-null Batch, and a    *)
(* record whose Batch cell is missing in the file has the label            *)
(* extract_batch_year computes from its Enrollment_Number.                 *)
C3_BatchNeverNull ==
    (pc = "loaded" /\ file.exists) =>
        \A k \in 1..Len(df.rows) :
            /\ df.rows[k]["Batch"] # NaN
            /\ ("Batch" \notin ColumnSet(file.header) \/ file.lines[k]["Batch"] = <<>>)
                  => df.rows[k]["Batch"] =
                        FirstRuleLabel(file.lines[k]["Enrollment_Number"])

(* C6: the search result is the subsequence of the batch-filtered rows     *)
(* whose Name contains the term as a literal substring, case ignored, for  *)
(* every term; the empty term gives the batch-filtered rows.               *)
C6_LiteralSearch ==
    /\ ~(pc = "crashed" /\ "search_box" \in rendered)
    /\ (pc \in {"export", "done"} /\ "search_box" \in rendered) =>
          /\ BatchAndSearchView.columns = filtered_df.columns
          /\ BatchAndSearchView.rows =
                SelectSeq(filtered_df.rows,
                          LAMBDA r : ContainsLiteral(r["Name"], search_term))

C9_MissingFileHalts ==
    ~file.exists =>
        /\ rendered \cap {"batch_selector", "statistics", "student_table",
                           "search_box", "search_results", "download_button"} = {}
        /\ loadCalls <= 1
        /\ pc \in {"start", "loaded", "done"}
        /\ pc = "loaded" => "error" \in rendered
        /\ pc = "done" => {"error", "warning"} \subseteq rendered

\* C9 witness: a pass over a missing file has ended
C9_Witness == ~file.exists /\ pc = "done" /\ "warning" \in rendered /\ loadCalls = 1

=============================================================================
